---- MODULE Spec2Model ----
(***************************************************************************)
(* The acme_registration resource of terraform-provider-acme: the three    *)
(* handlers resourceACMERegistrationCreate / Read / Delete and the error   *)
(* classifier regGone, run against a certificate authority whose accounts  *)
(* can be lost out of band.                                                *)
(*                                                                         *)
(* Strings that the program builds at run time (the resource ID, account   *)
(* URLs) are sequences of naturals: <<>> is the empty string "", <<n>> is  *)
(* the URL of the n-th account the CA created.  An error is the chain      *)
(* errors.Unwrap walks, outermost layer first; <<>> is the nil error.      *)
(***************************************************************************)
EXTENDS Naturals, Sequences, FiniteSets

\* ------------------------------------------------------------- bounds
\* How many layers of fmt.Errorf("...: %w") may sit on top of an error.
MaxWrap == 1
\* How many accounts the CA creates in one behaviour.
MaxAccounts == 2

\* ------------------------------------------------------------- errors
NoErr == <<>>

WrapLayer == [kind |-> "wrap", HTTPStatus |-> 0, Type |-> "", Detail |-> ""]

\* errors.New(msg): an error that carries no ACME problem document.
PlainErr(msg) == <<[kind |-> "plain", HTTPStatus |-> 0, Type |-> "", Detail |-> msg]>>

\* &acme.ProblemDetails{HTTPStatus: s, Type: t, Detail: dt}
ProblemErr(s, t, dt) == <<[kind |-> "problem", HTTPStatus |-> s, Type |-> t, Detail |-> dt]>>

RECURSIVE WrapErr(_, _)
\* n layers of fmt.Errorf("...: %w", err) around err.
WrapErr(err, n) == IF n = 0 \/ err = NoErr THEN err ELSE WrapErr(<<WrapLayer>> \o err, n - 1)

AccountDoesNotExist == "urn:ietf:params:acme:error:accountDoesNotExist"
Unauthorized == "urn:ietf:params:acme:error:unauthorized"
Malformed == "urn:ietf:params:acme:error:malformed"
RateLimited == "urn:ietf:params:acme:error:rateLimited"
ExternalAccountRequired == "urn:ietf:params:acme:error:externalAccountRequired"
UserActionRequired == "urn:ietf:params:acme:error:userActionRequired"

NoProblem == [kind |-> "none", HTTPStatus |-> 0, Type |-> "", Detail |-> ""]

RECURSIVE errorsAs(_)
\* errors.As(err, &e) with e *acme.ProblemDetails: the first problem document
\* in err's chain, NoProblem when the chain holds none (errors.As returns false).
errorsAs(err) ==
  IF err = NoErr THEN NoProblem
  ELSE IF Head(err).kind = "problem" THEN Head(err)
  ELSE errorsAs(Tail(err))

\* A classifier that looks at the HTTP status alone.
regGoneStatusOnly(err) ==
  LET e == errorsAs(err) IN e.kind = "problem" /\ e.HTTPStatus \in {400, 403}

\* A classifier that looks at the outermost error only (a type assertion
\* where errors.As is meant).
regGoneNoUnwrap(err) ==
  /\ err # NoErr
  /\ Head(err).kind = "problem"
  /\ \/ Head(err).HTTPStatus = 400 /\ Head(err).Type = AccountDoesNotExist
     \/ Head(err).HTTPStatus = 403 /\ Head(err).Type = Unauthorized

\* A classifier that also reads the problem document's detail text.
regGoneByDetail(err) ==
  LET e == errorsAs(err) IN
  /\ e.kind = "problem"
  /\ \/ e.HTTPStatus = 400 /\ e.Type = AccountDoesNotExist
     \/ e.HTTPStatus = 403 /\ e.Type = Unauthorized /\ e.Detail = "account deactivated"

regGone(err) ==
  LET e == errorsAs(err) IN
  IF e.kind # "problem" THEN FALSE
  ELSE CASE e.HTTPStatus = 400 /\ e.Type = AccountDoesNotExist -> TRUE
         [] e.HTTPStatus = 403 /\ e.Type = Unauthorized -> TRUE
         [] OTHER -> FALSE

\* ------------------------------------------------------------- the CA
Keys == {"keyA", "keyB"}
Modes == {"requiresEAB", "forbidsEAB"}

NoURL == <<>>
AcctURL(n) == <<n>>

\* The EAB credential the CA has handed out: key id and (decoded) MAC key.
CAEabKid == "K1"
CAEabSecret == "hello"

\* base64 decoding of the hmac_base64 values the model uses; "" when the text
\* is not base64.
Base64Decode(s) ==
  CASE s = "aGVsbG8=" -> "hello"
    [] s = "d3Jvbmc=" -> "wrong"
    [] OTHER -> ""

NoReg == [URI |-> NoURL, Status |-> "none"]

\* The account statuses the CA reports with the account itself: valid, and
\* "suspended", a status outside valid / deactivated / revoked.
Reported == {"valid", "suspended"}

\* The CA's answer to an account lookup by key (newAccount with
\* onlyReturnExisting): [err, reg].
CALookup(c, key) ==
  LET a == c.accounts[key] IN
  CASE a.Status = "none" ->
         [err |-> ProblemErr(400, AccountDoesNotExist, "no account for key"), reg |-> NoReg]
    [] a.Status \in Reported -> [err |-> NoErr, reg |-> a]
    [] OTHER ->
         [err |-> ProblemErr(403, Unauthorized, "account is not valid"), reg |-> NoReg]

\* The CA's answer to newAccount: [err, reg, ca].  opts is the registration
\* call of the handler; its Kid is "" for the plain registration.
CANewAccount(c, key, opts) ==
  LET a == c.accounts[key]
      eab == opts.name = "RegisterWithExternalAccountBinding"
      fail(e) == [err |-> e, reg |-> NoReg, ca |-> c]
  IN
  CASE ~opts.TermsOfServiceAgreed ->
         fail(ProblemErr(403, UserActionRequired, "terms of service not agreed"))
    [] opts.TermsOfServiceAgreed /\ a.Status \in Reported -> [err |-> NoErr, reg |-> a, ca |-> c]
    [] opts.TermsOfServiceAgreed /\ a.Status \in {"deactivated", "revoked"} ->
         fail(ProblemErr(403, Unauthorized, "account is not valid"))
    [] OTHER ->
         IF c.mode = "requiresEAB" /\ ~eab
           THEN fail(ProblemErr(400, ExternalAccountRequired, "EAB required"))
         ELSE IF c.mode = "forbidsEAB" /\ eab
           THEN fail(ProblemErr(400, Malformed, "EAB not supported"))
         ELSE IF eab /\ ~(opts.Kid = CAEabKid /\ Base64Decode(opts.HmacEncoded) = CAEabSecret)
           THEN fail(ProblemErr(401, Unauthorized, "EAB signature does not verify"))
         ELSE LET r == [URI |-> AcctURL(c.next), Status |-> "valid"] IN
              [err |-> NoErr, reg |-> r,
               ca |-> [c EXCEPT !.accounts[key] = r, !.next = c.next + 1]]

\* The CA's answer to the deactivation of the account of key: [err, ca].
CADeactivate(c, key) ==
  LET a == c.accounts[key] IN
  CASE a.Status = "valid" ->
         [err |-> NoErr, ca |-> [c EXCEPT !.accounts[key].Status = "deactivated"]]
    [] a.Status = "none" ->
         [err |-> ProblemErr(400, AccountDoesNotExist, "no account for key"), ca |-> c]
    [] OTHER -> [err |-> ProblemErr(403, Unauthorized, "account is not valid"), ca |-> c]

\* What may happen to the account of key at the CA while a handler is between
\* two of its requests, or between two handlers.
Loss == {"none", "deactivate", "revoke", "remove", "suspend"}

CALose(c, key, how) ==
  LET a == c.accounts[key] IN
  CASE how = "none" -> c
    [] how = "deactivate" /\ a.Status = "valid" -> [c EXCEPT !.accounts[key].Status = "deactivated"]
    [] how = "revoke" /\ a.Status = "valid" -> [c EXCEPT !.accounts[key].Status = "revoked"]
    [] how = "remove" /\ a.Status # "none" -> [c EXCEPT !.accounts[key] = NoReg]
    [] how = "suspend" /\ a.Status = "valid" -> [c EXCEPT !.accounts[key].Status = "suspended"]
    [] OTHER -> c

\* Failures of a request that do not depend on the account: the transport, and
\* CA answers any request can get.
Faults ==
  { PlainErr("connection refused"),
    ProblemErr(429, RateLimited, "too many requests"),
    ProblemErr(400, Malformed, "bad request"),
    ProblemErr(403, UserActionRequired, "terms of service changed") }

\* Failures of the client factory before any account request is made
\* (lego.NewClient reads the CA's directory).
LocalErrs == { PlainErr("get directory: connection refused") }

StoreErrs == { PlainErr("registration_url: cannot set") }

\* ------------------------------------------------------ collaborators
\* One call a handler makes: the collaborator, its arguments, and the account
\* request it sent to the CA ("none" when it sent none).
Call(name, request) ==
  [name |-> name, loadReg |-> FALSE, TermsOfServiceAgreed |-> FALSE, Kid |-> "",
   HmacEncoded |-> "", request |-> request]

\* expandACMEClient(d, meta, loadReg): builds the client for d's account key
\* and, with loadReg, loads the account's registration from the CA.  cf is the
\* failure of the construction (NoErr: none), lf the failure of the lookup
\* request, w the layers of context the factory wraps an error in.
\* [err, reg, calls]
expandACMEClient(c, d, loadReg, cf, lf, w) ==
  LET call(req) == <<[Call("expandACMEClient", req) EXCEPT !.loadReg = loadReg]>> IN
  IF cf # NoErr THEN [err |-> WrapErr(cf, w), reg |-> NoReg, calls |-> call("none")]
  ELSE IF ~loadReg THEN [err |-> NoErr, reg |-> NoReg, calls |-> call("none")]
  ELSE IF lf # NoErr THEN [err |-> WrapErr(lf, w), reg |-> NoReg, calls |-> call("lookup")]
  ELSE LET a == CALookup(c, d.account_key_pem) IN
       [err |-> WrapErr(a.err, w), reg |-> a.reg, calls |-> call("lookup")]

\* saveACMERegistration(d, reg): stores the registration's URL in the record;
\* sf is the failure of the store (NoErr: none).  [d, err, calls]
saveACMERegistration(d, reg, sf) ==
  [d |-> IF sf = NoErr THEN [d EXCEPT !.registration_url = reg.URI] ELSE d,
   err |-> sf,
   calls |-> <<Call("saveACMERegistration", "none")>>]

\* client.Registration.Register / RegisterWithExternalAccountBinding with the
\* options opts: the EAB registration decodes the MAC key first and sends
\* nothing when it is not base64; rf is the failure of the request.
\* [err, reg, ca, calls]
DoRegistration(c, key, opts, rf) ==
  IF opts.name = "RegisterWithExternalAccountBinding" /\ Base64Decode(opts.HmacEncoded) = ""
    THEN [err |-> PlainErr("acme: could not decode hmac key"), reg |-> NoReg, ca |-> c,
          calls |-> <<opts>>]
  ELSE IF rf # NoErr
    THEN [err |-> rf, reg |-> NoReg, ca |-> c,
          calls |-> <<[opts EXCEPT !.request = "newAccount"]>>]
  ELSE LET a == CANewAccount(c, key, opts) IN
       [err |-> a.err, reg |-> a.reg, ca |-> a.ca,
        calls |-> <<[opts EXCEPT !.request = "newAccount"]>>]

\* client.Registration.DeleteRegistration(): df is the failure of the request.
\* [err, ca, calls]
DeleteRegistration(c, key, df) ==
  IF df # NoErr
    THEN [err |-> df, ca |-> c, calls |-> <<Call("DeleteRegistration", "deactivate")>>]
  ELSE LET a == CADeactivate(c, key) IN
       [err |-> a.err, ca |-> a.ca, calls |-> <<Call("DeleteRegistration", "deactivate")>>]

\* ----------------------------------------------------------- handlers
\* d.GetOk("external_account_binding"): ok is false for the empty list.
HasEAB(d) == d.external_account_binding # <<>>

\* The registration path taken from what the CA's directory advertises.
RegistrationCallProbed(d, c) ==
  IF c.mode = "requiresEAB" /\ HasEAB(d)
    THEN [Call("RegisterWithExternalAccountBinding", "none") EXCEPT
            !.TermsOfServiceAgreed = TRUE,
            !.Kid = d.external_account_binding[1].key_id,
            !.HmacEncoded = d.external_account_binding[1].hmac_base64]
    ELSE [Call("Register", "none") EXCEPT !.TermsOfServiceAgreed = TRUE]

\* The plain registration whatever the record holds.
RegistrationCallPlain(d, c) ==
  [Call("Register", "none") EXCEPT !.TermsOfServiceAgreed = TRUE]

\* The registration call resourceACMERegistrationCreate makes with the client
\* of CA c.
RegistrationCall(d, c) ==
  IF HasEAB(d)
    THEN [Call("RegisterWithExternalAccountBinding", "none") EXCEPT
            !.TermsOfServiceAgreed = TRUE,
            !.Kid = d.external_account_binding[1].key_id,
            !.HmacEncoded = d.external_account_binding[1].hmac_base64]
    ELSE [Call("Register", "none") EXCEPT !.TermsOfServiceAgreed = TRUE]

\* d.SetId(id)
SetId(d, id) == [d EXCEPT !.id = id]

\* The ID rebuilt by the refresh instead of kept.
KeepIdRecomputed(d) == SetId(d, AcctURL(0))

\* The ID cleared by a refresh that found the account.
KeepIdCleared(d) == SetId(d, NoURL)

\* What a refresh that found the account does to the ID: nothing.
KeepId(d) == d

\* A refresh that forgets the record on whatever error.
ReadOnErrorForget(d, err) == [d |-> SetId(d, NoURL), err |-> NoErr]

\* A refresh that surfaces whatever error.
ReadOnErrorSurface(d, err) == [d |-> d, err |-> err]

\* resourceACMERegistrationRead's handling of expandACMEClient's error.
ReadOnError(d, err) ==
  IF regGone(err) THEN [d |-> SetId(d, NoURL), err |-> NoErr]
  ELSE [d |-> d, err |-> err]

\* A refresh that deactivates an account the CA no longer answers for.
resourceACMERegistrationReadTidying(d, c, cf, lf, w, sf) ==
  LET ec == expandACMEClient(c, d, TRUE, cf, lf, w) IN
  IF ec.err # NoErr
    THEN LET r == ReadOnError(d, ec.err)
             dl == DeleteRegistration(c, d.account_key_pem, NoErr)
         IN
         IF regGone(ec.err)
           THEN [d |-> r.d, err |-> r.err, ca |-> dl.ca, calls |-> ec.calls \o dl.calls,
                 reg |-> NoReg, stage |-> "client", cause |-> ec.err, assigned |-> NoURL]
           ELSE [d |-> r.d, err |-> r.err, ca |-> c, calls |-> ec.calls, reg |-> NoReg,
                 stage |-> "client", cause |-> ec.err, assigned |-> NoURL]
  ELSE LET sv == saveACMERegistration(KeepId(d), ec.reg, sf) IN
       [d |-> sv.d, err |-> sv.err, ca |-> c, calls |-> ec.calls \o sv.calls,
        reg |-> ec.reg, stage |-> "save", cause |-> sv.err, assigned |-> NoURL]

\* resourceACMERegistrationRead(ctx, d, meta) against CA c.  Beside what the
\* handler returns and leaves behind (d, err, ca), the result tells what it did:
\* its calls, the registration it loaded, the step it returned from, the error
\* of the collaborator that failed (cause) and the URL a registration was
\* answered with (assigned).
\* [d, err, ca, calls, reg, stage, cause, assigned]
resourceACMERegistrationRead(d, c, cf, lf, w, sf) ==
  LET ec == expandACMEClient(c, d, TRUE, cf, lf, w) IN
  IF ec.err # NoErr
    THEN LET r == ReadOnError(d, ec.err) IN
         [d |-> r.d, err |-> r.err, ca |-> c, calls |-> ec.calls, reg |-> NoReg,
          stage |-> "client", cause |-> ec.err, assigned |-> NoURL]
  ELSE LET sv == saveACMERegistration(KeepId(d), ec.reg, sf) IN
       [d |-> sv.d, err |-> sv.err, ca |-> c, calls |-> ec.calls \o sv.calls,
        reg |-> ec.reg, stage |-> "save", cause |-> sv.err, assigned |-> NoURL]

\* The ID left unset by the create.
IdOfRegistrationUnset(d, reg) == d

\* d.SetId(reg.URI)
IdOfRegistration(d, reg) == SetId(d, reg.URI)

\* A create that registers a second time when the first registration fails.
resourceACMERegistrationCreateRetrying(d, c, cf1, w1, rf, loss, cf2, lf2, w2, sf) ==
  LET ec == expandACMEClient(c, d, FALSE, cf1, NoErr, w1) IN
  IF ec.err # NoErr
    THEN [d |-> d, err |-> ec.err, ca |-> c, calls |-> ec.calls, reg |-> NoReg,
          stage |-> "client", cause |-> ec.err, assigned |-> NoURL]
  ELSE LET r1 == DoRegistration(c, d.account_key_pem, RegistrationCall(d, c), rf)
           r2 == DoRegistration(r1.ca, d.account_key_pem, RegistrationCall(d, c), rf)
           rg == IF r1.err = NoErr THEN r1
                 ELSE [r2 EXCEPT !.calls = r1.calls \o r2.calls]
       IN
       IF rg.err # NoErr
         THEN [d |-> d, err |-> rg.err, ca |-> rg.ca, calls |-> ec.calls \o rg.calls,
               reg |-> NoReg, stage |-> "register", cause |-> rg.err, assigned |-> NoURL]
       ELSE LET rd == resourceACMERegistrationRead(IdOfRegistration(d, rg.reg),
                        CALose(rg.ca, d.account_key_pem, loss), cf2, lf2, w2, sf) IN
            [d |-> rd.d, err |-> rd.err, ca |-> rd.ca,
             calls |-> ec.calls \o rg.calls \o rd.calls, reg |-> rd.reg,
             stage |-> IF rd.stage = "client" THEN "read" ELSE "readsave",
             cause |-> rd.cause, assigned |-> rg.reg.URI]

\* resourceACMERegistrationCreate(ctx, d, meta) against CA c; loss is what
\* happens to the account at the CA between the registration and the refresh.
\* [d, err, ca, calls, reg, stage, cause, assigned]
resourceACMERegistrationCreate(d, c, cf1, w1, rf, loss, cf2, lf2, w2, sf) ==
  LET ec == expandACMEClient(c, d, FALSE, cf1, NoErr, w1) IN
  IF ec.err # NoErr
    THEN [d |-> d, err |-> ec.err, ca |-> c, calls |-> ec.calls, reg |-> NoReg,
          stage |-> "client", cause |-> ec.err, assigned |-> NoURL]
  ELSE LET rg == DoRegistration(c, d.account_key_pem, RegistrationCall(d, c), rf) IN
       IF rg.err # NoErr
         THEN [d |-> d, err |-> rg.err, ca |-> rg.ca, calls |-> ec.calls \o rg.calls,
               reg |-> NoReg, stage |-> "register", cause |-> rg.err, assigned |-> NoURL]
       ELSE LET rd == resourceACMERegistrationRead(IdOfRegistration(d, rg.reg),
                        CALose(rg.ca, d.account_key_pem, loss), cf2, lf2, w2, sf) IN
            [d |-> rd.d, err |-> rd.err, ca |-> rd.ca,
             calls |-> ec.calls \o rg.calls \o rd.calls, reg |-> rd.reg,
             stage |-> IF rd.stage = "client" THEN "read" ELSE "readsave",
             cause |-> rd.cause, assigned |-> rg.reg.URI]

\* A delete that clears the ID itself, whatever the outcome.
resourceACMERegistrationDeleteClearing(d, c, cf, lf, w, loss, df) ==
  LET ec == expandACMEClient(c, d, TRUE, cf, lf, w) IN
  IF ec.err # NoErr
    THEN [d |-> SetId(d, NoURL), err |-> ec.err, ca |-> c, calls |-> ec.calls, reg |-> NoReg,
          stage |-> "client", cause |-> ec.err, assigned |-> NoURL]
  ELSE LET dl == DeleteRegistration(CALose(c, d.account_key_pem, loss), d.account_key_pem, df) IN
       [d |-> SetId(d, NoURL), err |-> dl.err, ca |-> dl.ca, calls |-> ec.calls \o dl.calls,
        reg |-> ec.reg, stage |-> "deactivate", cause |-> dl.err, assigned |-> NoURL]

\* A delete that sends the deactivation although the client could not load the
\* registration because the account is gone.
resourceACMERegistrationDeleteEager(d, c, cf, lf, w, loss, df) ==
  LET ec == expandACMEClient(c, d, TRUE, cf, lf, w) IN
  IF ec.err # NoErr /\ ~regGone(ec.err)
    THEN [d |-> d, err |-> ec.err, ca |-> c, calls |-> ec.calls, reg |-> NoReg,
          stage |-> "client", cause |-> ec.err, assigned |-> NoURL]
  ELSE LET dl == DeleteRegistration(CALose(c, d.account_key_pem, loss), d.account_key_pem, df) IN
       [d |-> d, err |-> dl.err, ca |-> dl.ca, calls |-> ec.calls \o dl.calls,
        reg |-> ec.reg, stage |-> IF ec.err # NoErr THEN "client" ELSE "deactivate",
        cause |-> IF ec.err # NoErr THEN ec.err ELSE dl.err, assigned |-> NoURL]

\* resourceACMERegistrationDelete(ctx, d, meta) against CA c; loss is what
\* happens to the account at the CA between the lookup and the deactivation.
\* [d, err, ca, calls, reg, stage, cause, assigned]
resourceACMERegistrationDelete(d, c, cf, lf, w, loss, df) ==
  LET ec == expandACMEClient(c, d, TRUE, cf, lf, w) IN
  IF ec.err # NoErr
    THEN [d |-> d, err |-> ec.err, ca |-> c, calls |-> ec.calls, reg |-> NoReg,
          stage |-> "client", cause |-> ec.err, assigned |-> NoURL]
  ELSE LET dl == DeleteRegistration(CALose(c, d.account_key_pem, loss), d.account_key_pem, df) IN
       [d |-> d, err |-> dl.err, ca |-> dl.ca, calls |-> ec.calls \o dl.calls,
        reg |-> ec.reg, stage |-> "deactivate", cause |-> dl.err, assigned |-> NoURL]

\* -------------------------------------------------------------- state
VARIABLES
  d,     \* the persisted record (schema.ResourceData): the schema's fields and the ID
  ca,    \* the CA: its EAB policy, the account of each key, the next account number
  last,  \* the handler that ran last: what it was given, did and returned
  prev,  \* the handler before it, in short
  probe,   \* an error handed to regGone on its own
  verdict  \* what regGone answered for it

vars == <<d, ca, last, prev, probe, verdict>>

\* The external_account_binding lists a configuration may hold (MaxItems 1).
EABConfigs ==
  { <<>>,
    <<[key_id |-> "K1", hmac_base64 |-> "aGVsbG8="]>>,
    <<[key_id |-> "K1", hmac_base64 |-> "d3Jvbmc="]>>,
    <<[key_id |-> "K1", hmac_base64 |-> "not base64"]>> }

NoD ==
  [account_key_pem |-> "", email_address |-> "", external_account_binding |-> <<>>,
   id |-> NoURL, registration_url |-> NoURL]

NoRun ==
  [op |-> "none", err |-> NoErr, dBefore |-> NoD, calls |-> <<>>, reg |-> NoReg,
   stage |-> "none", cause |-> NoErr, assigned |-> NoURL, acctBefore |-> NoReg,
   clean |-> TRUE, loss |-> "none", lostAfter |-> FALSE]

Short(run, id) ==
  [op |-> run.op, ok |-> run.err = NoErr, id |-> id, lostDuring |-> run.loss # "none",
   lostAfter |-> run.lostAfter]

Init ==
  /\ d \in [account_key_pem : Keys, email_address : {"a@example.com"},
            external_account_binding : EABConfigs, id : {NoURL},
            registration_url : {NoURL}]
  /\ ca \in [mode : Modes, accounts : {[k \in Keys |-> NoReg]}, next : {1}]
  /\ last = NoRun
  /\ prev = Short(NoRun, NoURL)
  /\ probe = NoErr
  /\ verdict = FALSE

\* The handler's run r (its result) recorded as the last one.
Ran(op, r, clean, loss) ==
  /\ d' = r.d
  /\ ca' = r.ca
  /\ prev' = Short(last, d.id)
  /\ last' = [op |-> op, err |-> r.err, dBefore |-> d, calls |-> r.calls, reg |-> r.reg,
              stage |-> r.stage, cause |-> r.cause, assigned |-> r.assigned,
              acctBefore |-> ca.accounts[d.account_key_pem],
              clean |-> clean, loss |-> loss, lostAfter |-> FALSE]
  /\ UNCHANGED <<probe, verdict>>

OrNone(S) == {NoErr} \cup S

\* The ways a call of expandACMEClient can go that differ in its result: the
\* construction fails, the lookup request fails, or the CA answers.
ExpandInputs(loadReg) ==
  [cf : LocalErrs, lf : {NoErr}, w : 0..MaxWrap]
    \cup (IF loadReg THEN [cf : {NoErr}, lf : OrNone(Faults), w : 0..MaxWrap]
          ELSE [cf : {NoErr}, lf : {NoErr}, w : {0}])

\* The inputs that matter once a step has (S) or has not ({none}) been reached.
IfReached(reached, S, none) == IF reached THEN S ELSE {none}

\* The host creates the resource: only a record without an ID is created.
Create ==
  /\ d.id = NoURL
  /\ ca.next <= MaxAccounts
  /\ \E x1 \in ExpandInputs(FALSE), rf \in OrNone(Faults) :
       LET registered ==
             /\ x1.cf = NoErr
             /\ DoRegistration(ca, d.account_key_pem, RegistrationCall(d, ca), rf).err = NoErr
       IN
       \E loss \in IfReached(registered, Loss, "none"),
          x2 \in IfReached(registered, ExpandInputs(TRUE), [cf |-> NoErr, lf |-> NoErr, w |-> 0]),
          sf \in IfReached(registered, OrNone(StoreErrs), NoErr) :
         /\ x1.cf # NoErr => rf = NoErr
         /\ Ran("create",
                resourceACMERegistrationCreate(d, ca, x1.cf, x1.w, rf, loss, x2.cf, x2.lf, x2.w, sf),
                /\ x1.cf = NoErr /\ rf = NoErr /\ loss = "none"
                /\ x2.cf = NoErr /\ x2.lf = NoErr /\ sf = NoErr,
                loss)

\* The host refreshes a record it holds.
Refresh ==
  /\ d.id # NoURL
  /\ \E x \in ExpandInputs(TRUE), sf \in OrNone(StoreErrs) :
       Ran("refresh", resourceACMERegistrationRead(d, ca, x.cf, x.lf, x.w, sf),
           x.cf = NoErr /\ x.lf = NoErr /\ sf = NoErr, "none")

\* The host destroys a record it holds.
Delete ==
  /\ d.id # NoURL
  /\ \E x \in ExpandInputs(TRUE) :
       LET loaded == expandACMEClient(ca, d, TRUE, x.cf, x.lf, x.w).err = NoErr IN
       \E loss \in IfReached(loaded, Loss, "none"), df \in IfReached(loaded, OrNone(Faults), NoErr) :
         Ran("delete", resourceACMERegistrationDelete(d, ca, x.cf, x.lf, x.w, loss, df),
             x.cf = NoErr /\ x.lf = NoErr /\ loss = "none" /\ df = NoErr, loss)

\* The host drops the record of a resource whose delete returned no error.
Forget ==
  /\ last.op = "delete"
  /\ last.err = NoErr
  /\ d.id # NoURL
  /\ d' = [d EXCEPT !.id = NoURL, !.registration_url = NoURL]
  /\ prev' = Short(last, d.id)
  /\ last' = [NoRun EXCEPT !.op = "forget", !.dBefore = d]
  /\ UNCHANGED <<ca, probe, verdict>>

\* The account is lost at the CA behind the program's back.
AccountLost ==
  /\ \E how \in Loss \ {"none"} :
       /\ CALose(ca, d.account_key_pem, how) # ca
       /\ ca' = CALose(ca, d.account_key_pem, how)
  /\ last' = [last EXCEPT !.lostAfter = TRUE]
  /\ UNCHANGED <<d, prev, probe, verdict>>

Next == Create \/ Refresh \/ Delete \/ Forget \/ AccountLost

Spec == Init /\ [][Next]_vars

\* ------------------------------------------------- regGone on its own
\* The statuses, types and details of the problem documents regGone is tried on.
ProbeStatuses == {400, 401, 403, 429, 500}
ProbeTypes ==
  {AccountDoesNotExist, Unauthorized, Malformed, RateLimited, ExternalAccountRequired, ""}
ProbeDetails == {"", "account deactivated"}

\* The errors regGone is tried on: nil, and an error with or without a problem
\* document under up to MaxWrap layers of context.
ProbeErrs ==
  {NoErr} \cup
  { WrapErr(leaf, n) :
      leaf \in {PlainErr("connection refused")} \cup
               {ProblemErr(s, t, dt) : s \in ProbeStatuses, t \in ProbeTypes, dt \in ProbeDetails},
      n \in 0..MaxWrap }

InitClassify ==
  /\ d = NoD
  /\ ca = [mode |-> "forbidsEAB", accounts |-> [k \in Keys |-> NoReg], next |-> 1]
  /\ last = NoRun
  /\ prev = Short(NoRun, NoURL)
  /\ probe = NoErr
  /\ verdict = regGone(NoErr)

Classify ==
  /\ \E e \in ProbeErrs :
       /\ probe' = e
       /\ verdict' = regGone(e)
  /\ UNCHANGED <<d, ca, last, prev>>

SpecClassify == InitClassify /\ [][Classify]_vars

\* ------------------------------------------------------------- claims
\* The classification table of the specification, read off an error chain
\* without errors.As: the outermost problem document of the chain is
\* 400/accountDoesNotExist or 403/unauthorized.
AccountGone(err) ==
  \E i \in 1..Len(err) :
    /\ err[i].kind = "problem"
    /\ \A j \in 1..(i - 1) : err[j].kind # "problem"
    /\ <<err[i].HTTPStatus, err[i].Type>> \in
         {<<400, AccountDoesNotExist>>, <<403, Unauthorized>>}

RegistrationCalls(calls) ==
  {i \in 1..Len(calls) : calls[i].name \in {"Register", "RegisterWithExternalAccountBinding"}}

\* C1: a delete that meets a failure classified "account gone" reports
\* success: no delete returns an error of that class.
C1_DeleteGoneIsSuccess ==
  last.op = "delete" => ~AccountGone(last.err)

\* C2: regGone answers true exactly for the errors whose problem document is
\* 400/accountDoesNotExist or 403/unauthorized, and false for every other one
\* and for an error without a problem document.
C2_ClassificationExact ==
  verdict <=> AccountGone(probe)

C2_Witness ==
  /\ errorsAs(probe).kind = "problem"
  /\ errorsAs(probe).HTTPStatus = 403
  /\ errorsAs(probe).Type = AccountDoesNotExist
  /\ Len(probe) > 1
  /\ ~verdict

\* C3: a refresh whose failure is classified "account gone" clears the ID and
\* returns no error.
C3_RefreshGoneClears ==
  (last.op = "refresh" /\ AccountGone(last.cause)) =>
    (d.id = NoURL /\ last.err = NoErr)

C3_Witness ==
  /\ last.op = "refresh"
  /\ AccountGone(last.cause)
  /\ Len(last.cause) > 1
  /\ last.dBefore.id # NoURL
  /\ d.id = NoURL

\* C4: a refresh whose failure is not classified "account gone" returns that
\* error and leaves the record as it was, the ID included.
C4_RefreshRealErrorKeeps ==
  (last.op = "refresh" /\ last.cause # NoErr /\ ~AccountGone(last.cause)) =>
    (last.err = last.cause /\ d = last.dBefore /\ d.id # NoURL)

C4_Witness ==
  /\ last.op = "refresh"
  /\ errorsAs(last.cause).kind = "problem"
  /\ errorsAs(last.cause).HTTPStatus = 400
  /\ ~AccountGone(last.cause)
  /\ d.id # NoURL

\* C5, as claimed: whenever create returns an error, the ID is not set.
C5_NoIdOnCreateError ==
  (last.op = "create" /\ last.err # NoErr) => d.id = NoURL

\* C5, amended: when create returns an error from the client construction or
\* the registration the ID is not set; when it returns an error from the
\* refresh it runs after registering, the ID is the URL the CA assigned.
C5_IdOnCreateErrorByStep ==
  (last.op = "create" /\ last.err # NoErr) =>
    /\ last.stage \in {"client", "register"} => d.id = NoURL
    /\ last.stage \in {"read", "readsave"} => (d.id = last.assigned /\ d.id # NoURL)

C5_Witness ==
  /\ last.op = "create"
  /\ last.err # NoErr
  /\ last.stage = "read"
  /\ d.id # NoURL

\* C6: whenever create returns without error, the ID is non-empty and is the
\* URL the CA assigned in the registration response.
C6_CreateOkSetsId ==
  (last.op = "create" /\ last.err = NoErr) =>
    (d.id # NoURL /\ d.id = last.assigned)

\* C7: for a record without an EAB binding, a refresh that follows a
\* successful create with the CA unchanged since the registration keeps the ID
\* create produced, and when its requests are answered it succeeds with the account's
\* status valid.
C7_CreateThenRefresh ==
  ( /\ last.op = "refresh"
    /\ prev.op = "create" /\ prev.ok /\ prev.id # NoURL
    /\ ~prev.lostDuring /\ ~prev.lostAfter
    /\ ~HasEAB(d) ) =>
    /\ d.id = prev.id
    /\ last.clean => (last.err = NoErr /\ last.reg.Status = "valid" /\ last.reg.URI = prev.id)

C7_Witness ==
  /\ last.op = "refresh"
  /\ prev.op = "create" /\ prev.ok /\ prev.id # NoURL
  /\ ~prev.lostDuring /\ ~prev.lostAfter
  /\ ~HasEAB(d)
  /\ last.clean
  /\ last.reg.Status = "valid"
  /\ d.id = prev.id

\* C8: a create that has its client makes exactly one registration call: the
\* EAB registration with the record's key_id and hmac_base64 when the record
\* holds an EAB binding, the plain registration when it holds none, the terms of
\* service agreed in both, whatever the CA's EAB policy is; a create without
\* its client makes none.
C8_OneRegistrationPath ==
  last.op = "create" =>
    LET regs == RegistrationCalls(last.calls) IN
    /\ last.stage = "client" => regs = {}
    /\ last.stage # "client" =>
         /\ Cardinality(regs) = 1
         /\ \A i \in regs :
              /\ last.calls[i].TermsOfServiceAgreed
              /\ HasEAB(last.dBefore) =>
                   /\ last.calls[i].name = "RegisterWithExternalAccountBinding"
                   /\ last.calls[i].Kid = last.dBefore.external_account_binding[1].key_id
                   /\ last.calls[i].HmacEncoded =
                        last.dBefore.external_account_binding[1].hmac_base64
              /\ ~HasEAB(last.dBefore) => last.calls[i].name = "Register"

C8_Witness ==
  /\ last.op = "create"
  /\ ca.mode = "forbidsEAB"
  /\ HasEAB(last.dBefore)
  /\ \E i \in RegistrationCalls(last.calls) :
       /\ last.calls[i].name = "RegisterWithExternalAccountBinding"
       /\ last.calls[i].request = "newAccount"

\* C9: against a CA that requires EAB, a create of a record without an EAB
\* binding returns an error and sets no ID; a create of a record with the
\* binding the CA accepts, whose requests are all answered and whose key has
\* no lost account at the CA, returns no error and sets the ID.
C9_EABRequired ==
  (last.op = "create" /\ ca.mode = "requiresEAB") =>
    /\ ~HasEAB(last.dBefore) => (last.err # NoErr /\ d.id = NoURL)
    /\ ( /\ HasEAB(last.dBefore)
         /\ last.dBefore.external_account_binding[1].key_id = CAEabKid
         /\ Base64Decode(last.dBefore.external_account_binding[1].hmac_base64) = CAEabSecret
         /\ last.clean
         /\ last.acctBefore.Status \in {"none", "valid"} ) =>
         (last.err = NoErr /\ d.id # NoURL /\ d.id = last.assigned)

C9_Witness ==
  /\ last.op = "create"
  /\ ca.mode = "requiresEAB"
  /\ HasEAB(last.dBefore)
  /\ last.err = NoErr
  /\ d.id # NoURL

\* C10: the ID is assigned by create alone, and a set ID is never changed to
\* another non-empty value: a later step keeps it or clears it.
C10_IdAssignedOnce ==
  [][ /\ d.id # NoURL => d'.id \in {d.id, NoURL}
      /\ (d.id = NoURL /\ d'.id # NoURL) => last'.op = "create" ]_vars

C10_Witness ==
  /\ last.op = "refresh"
  /\ last.err = NoErr
  /\ prev.op = "delete"
  /\ ~prev.ok
  /\ d.id # NoURL
  /\ d.id = last.dBefore.id

Requests(calls, kinds) == {i \in 1..Len(calls) : calls[i].request \in kinds}

KnownStatuses == {"valid", "deactivated", "revoked"}

\* C11, as claimed: a refresh whose CA query succeeds and reports a status
\* outside valid / deactivated / revoked clears the ID.
C11_UnknownStatusIsGone ==
  (last.op = "refresh" /\ last.stage = "save" /\ last.reg.Status \notin KnownStatuses) =>
    d.id = NoURL

\* C11, amended: refresh does not look at the status: a refresh whose CA query
\* succeeds keeps the ID whatever status the CA reports, and a refresh clears
\* the ID only on a failure classified "account gone".
C11_RefreshIgnoresStatus ==
  last.op = "refresh" =>
    /\ last.stage = "save" => (d.id = last.dBefore.id /\ d.id # NoURL)
    /\ d.id = NoURL => AccountGone(last.cause)

C11_Witness ==
  /\ last.op = "refresh"
  /\ last.stage = "save"
  /\ last.err = NoErr
  /\ last.reg.Status = "suspended"
  /\ d.id # NoURL

\* C12: in create, refresh and delete, a collaborator call that fails with an
\* error not classified "account gone" makes the handler return that error.
C12_RealErrorsSurface ==
  ( /\ last.op \in {"create", "refresh", "delete"}
    /\ last.cause # NoErr
    /\ ~AccountGone(last.cause) ) =>
    (last.err # NoErr /\ last.err = last.cause)

C12_Witness ==
  /\ last.op = "refresh"
  /\ last.stage = "save"
  /\ last.cause # NoErr
  /\ last.err = last.cause

\* C13: a delete that returns an error leaves the record as it was, the ID
\* still set, and the error it returns is the one that made it fail.
C13_FailedDeleteKeepsRecord ==
  (last.op = "delete" /\ last.err # NoErr) =>
    (d = last.dBefore /\ d.id # NoURL /\ last.err = last.cause)

C13_Witness ==
  /\ last.op = "delete"
  /\ last.err # NoErr
  /\ ~AccountGone(last.err)
  /\ last.stage = "deactivate"
  /\ d.id # NoURL

\* C14: a create sends at most one registration request, and when the
\* registration fails it returns that error at once: the registration is its
\* last call, no further request is sent and the ID stays unset.
C14_NoRetry ==
  last.op = "create" =>
    /\ Cardinality(RegistrationCalls(last.calls)) <= 1
    /\ Cardinality(Requests(last.calls, {"newAccount"})) <= 1
    /\ last.stage = "register" =>
         /\ last.err = last.cause /\ last.err # NoErr
         /\ Len(last.calls) = 2
         /\ RegistrationCalls(last.calls) = {2}
         /\ Requests(last.calls, {"lookup", "deactivate"}) = {}
         /\ d.id = NoURL

C14_Witness ==
  /\ last.op = "create"
  /\ last.stage = "register"
  /\ Requests(last.calls, {"newAccount"}) = {2}
  /\ errorsAs(last.err).Type = ExternalAccountRequired
  /\ d.id = NoURL

\* C15: a delete calls expandACMEClient with the registration loaded first and
\* DeleteRegistration second; when expandACMEClient fails, also with an error
\* classified "account gone", no deactivation request is sent and that error
\* is what delete returns.
C15_DeleteClientFirst ==
  last.op = "delete" =>
    /\ Len(last.calls) >= 1
    /\ last.calls[1].name = "expandACMEClient" /\ last.calls[1].loadReg
    /\ last.stage = "client" =>
         /\ Len(last.calls) = 1
         /\ Requests(last.calls, {"deactivate"}) = {}
         /\ last.err = last.cause /\ last.err # NoErr
    /\ last.stage = "deactivate" =>
         /\ Len(last.calls) = 2
         /\ last.calls[2].name = "DeleteRegistration"
         /\ Requests(last.calls, {"deactivate"}) = {2}

C15_Witness ==
  /\ last.op = "delete"
  /\ last.stage = "client"
  /\ AccountGone(last.cause)
  /\ Requests(last.calls, {"deactivate"}) = {}
  /\ last.err # NoErr

\* C16: a refresh, whatever its outcome, sends no registration and no
\* deactivation request and leaves the CA's accounts as they were.
C16_RefreshReadOnly ==
  [][ (last'.op = "refresh" /\ ~last'.lostAfter) =>
        /\ ca' = ca
        /\ Requests(last'.calls, {"newAccount", "deactivate"}) = {}
        /\ RegistrationCalls(last'.calls) = {} ]_vars

C16_Witness ==
  /\ last.op = "refresh"
  /\ ~last.lostAfter
  /\ AccountGone(last.cause)
  /\ d.id = NoURL
  /\ ca.accounts[d.account_key_pem].Status = "revoked"

\* The problem document an error carries, read off the chain without
\* errors.As: its status and type, <<0, "">> when the chain holds none.
DocOf(err) ==
  LET at == {i \in 1..Len(err) : err[i].kind = "problem"} IN
  IF at = {} THEN <<"none", 0, "">>
  ELSE LET i == CHOOSE k \in at : \A j \in at : k <= j IN
       <<"problem", err[i].HTTPStatus, err[i].Type>>

\* C17: regGone depends only on the status and type of the problem document
\* in the error's chain: every error with the same document as the classified
\* one, whatever its detail text and the layers around it, gets the same
\* answer, and a wrapped 400/accountDoesNotExist or 403/unauthorized is gone.
C17_ClassificationByDocument ==
  /\ \A e \in ProbeErrs : DocOf(e) = DocOf(probe) => regGone(e) = verdict
  /\ ( /\ Len(probe) > 1
       /\ DocOf(probe) \in {<<"problem", 400, AccountDoesNotExist>>,
                            <<"problem", 403, Unauthorized>>} ) => verdict

C17_Witness ==
  /\ Len(probe) > 1
  /\ DocOf(probe) = <<"problem", 403, Unauthorized>>
  /\ probe[Len(probe)].Detail = ""
  /\ verdict
====
